---- MODULE Spec2Model ----
(***************************************************************************)
(* The client side of keyboard-bridge: KeyboardBridge, WebSocketClient and *)
(* KeyboardEventCapture (TypeScript), together with the browser objects    *)
(* they drive (WebSocket, timers, the DOM listener list).                  *)
(*                                                                         *)
(* One step of the model is one task of the browser's event loop: a call   *)
(* made by the page (start, stop, setKeymap, resetModifierState, ...), a    *)
(* socket event, a timer, or a raw input signal, each run to completion    *)
(* together with the promise continuations (microtasks) it triggers. The   *)
(* variables task, trace, transmitted and emitted hold what the last task  *)
(* was and what it logged, sent and handed to the callbacks; they are      *)
(* reset by every task, so that no history accumulates in the state.       *)
(*                                                                         *)
(* ModifierState objects live in a heap (objects) and are referred to by   *)
(* id, so that copying an object and sharing it are different things; the  *)
(* Keymap objects (keymaps) are referred to by name for the same reason.   *)
(*                                                                         *)
(* The specifications share the handlers: Spec is a KeyboardBridge with    *)
(* its socket life cycle, the raw signals and the page's sendEvent;        *)
(* SessionSpec is the bridge with inbound messages, keymap replacements    *)
(* and the page's sendEvent; CaptureSpec is a                              *)
(* KeyboardEventCapture driven by a page that keeps events and modifier    *)
(* snapshots; SignalSpec runs the key handlers over every raw key signal;  *)
(* RetrySpec is a bridge whose server goes away for good, with fairness;   *)
(* KeymapSpec adds a page that holds and writes a keymap object;           *)
(* ZeroCapSpec is a bridge configured with a retry cap of 0.               *)
(*                                                                         *)
(* Every method is an operator from a state record to a state record, so   *)
(* that a handler calling another method is the composition of the two.    *)
(***************************************************************************)
EXTENDS Integers, Sequences, FiniteSets, TLC

(***************************************************************************)
(* Bounds of the model.                                                    *)
(***************************************************************************)
\* options.maxReconnectAttempts as configured for the modelled client
MaxReconnectAttempts == 1
\* number of WebSocket objects the client creates in one run
MaxSockets == 2
\* options.maxReconnectAttempts of the client of the retry runs
RetryCap == MaxReconnectAttempts + 2

(***************************************************************************)
(* Program constants.                                                      *)
(***************************************************************************)
\* this.ws = null
NoSocket == 0
\* the normal-closure code tested by handleClose
NormalClosure == 1000

\* the codes a close event carries: normal closure, no status received (the
\* peer answered a close() that gave no code), abnormal closure (the
\* connection failed or was lost)
CloseCodes == {NormalClosure, 1005, 1006}
\* the code of the close event of a failed or lost connection
AbnormalClosure == CHOOSE c \in CloseCodes : c = 1006

\* event.location of the right-hand key (DOM_KEY_LOCATION_RIGHT)
RightLocation == 2

\* the cap the WebSocketClient constructor falls back to
DefaultMaxReconnectAttempts == 10

\* keyCode values of the raw key signals (65 is 'A')
KeyCodes == {65}
\* event.data of the raw composition signals, as sequences of UTF-16 code units
Texts == {<<>>, <<"k", "a">>}

KeySignals == {"keydown", "keyup"}
CompositionSignals == {"compositionstart", "compositionupdate", "compositionend"}

\* event.location: standard, left, right, numpad
Locations == {0, 1, RightLocation, 3}

\* event.getModifierState: missing on the host, or answering for the three
\* lock keys
LockQueries ==
  {[available |-> FALSE]} \cup
  [available : {TRUE}, CapsLock : BOOLEAN, NumLock : BOOLEAN, ScrollLock : BOOLEAN]

\* the raw keydown and keyup signals of the host: a DOM KeyboardEvent
RawKeys ==
  [keyCode : KeyCodes, key : {"a"}, repeat : {FALSE},
   ctrlKey : BOOLEAN, altKey : BOOLEAN, shiftKey : BOOLEAN, metaKey : BOOLEAN,
   location : Locations, getModifierState : LockQueries]

\* a key signal with no modifier held, on a host without getModifierState
PlainKey ==
  [keyCode |-> 65, key |-> "a", repeat |-> FALSE,
   ctrlKey |-> FALSE, altKey |-> FALSE, shiftKey |-> FALSE, metaKey |-> FALSE,
   location |-> 0, getModifierState |-> [available |-> FALSE]]

\* the signals of the bridge's runs: the plain key pressed and released, and
\* a composition in progress
BridgeKeys == {PlainKey}
BridgeCompositionSignals == {"compositionupdate"}
BridgeTexts == {<<"k", "a">>}

\* the key signals of the capture's runs: no modifier, Ctrl+Shift on the left
\* with CapsLock on, and the right-hand Alt with NumLock on
SomeKeys ==
  {PlainKey,
   [PlainKey EXCEPT !.ctrlKey = TRUE, !.shiftKey = TRUE, !.location = 1,
                    !.getModifierState =
                       [available |-> TRUE, CapsLock |-> TRUE,
                        NumLock |-> FALSE, ScrollLock |-> FALSE]],
   [PlainKey EXCEPT !.altKey = TRUE, !.location = RightLocation,
                    !.getModifierState =
                       [available |-> TRUE, CapsLock |-> FALSE,
                        NumLock |-> TRUE, ScrollLock |-> FALSE]]}

\* the content of the module's DEFAULT_KEYMAP object, abridged to the entry
\* of key code 65
DEFAULT_KEYMAP == "65" :> "KEY_A"
\* the content of a keymap of the page's own
CustomKeymap == "65" :> "KEY_Q"
\* the contents of the keymaps a page passes to setKeymap
Keymaps == {DEFAULT_KEYMAP, CustomKeymap}
\* the types of the events a page passes to sendEvent: a keymap message
\* with the keymap object the page holds, and a keyboard event of its making
PageEventTypes == {"keymap", "keyboard_event"}
\* the device keys the page writes into the keymap object it holds
PageKeys == {"KEY_Q", "KEY_Z"}

\* event.data of the message events of a socket: a JSON object with a type,
\* the JSON text null, and a text that is no JSON
Payloads == {"{\"type\":\"connection_established\"}", "null", "{oops"}

\* no raw signal: the task is not the dispatch of one
NoRaw == [type |-> "none"]
\* no event
NoEvent == [type |-> "none"]

\* the value of the modifierState field initialiser and of resetModifierState
InitialModifierState ==
  [ctrl |-> FALSE, alt |-> FALSE, shift |-> FALSE, meta |-> FALSE,
   altGr |-> FALSE, capsLock |-> FALSE, numLock |-> FALSE, scrollLock |-> FALSE]

VARIABLES
  \* WebSocketClient
  ws,                 \* id of the current socket, or NoSocket
  reconnectAttempts,
  maxReconnectAttempts,
  isConnecting,
  isConnected,
  reconnectTimers,    \* number of pending setTimeout callbacks of attemptReconnect
  \* browser WebSocket objects, in creation order (id = index)
  sockets,
  \* KeyboardBridge
  isStarted,
  keymap,             \* this.keymap: the name of a Keymap object
  \* KeyboardEventCapture
  isCapturing,
  captureComposition, \* options.captureComposition
  captureModifiers,   \* options.captureModifiers
  listeners,          \* the target's listener list: <<[type, fn]>> in registration order
  modifierState,      \* this.modifierState: the id of a ModifierState object
  callbacks,          \* who installed onKeyboardEvent and onCompositionEvent:
                      \* "bridge" (the KeyboardBridge constructor) or "page"
  \* the heap and the page
  objects,            \* the ModifierState objects in use, by id
  held,               \* the event the page's callback kept, or NoEvent
  returned,           \* the ids of the getModifierState() result the page holds
  keymaps,            \* the Keymap objects, by name: the module's
                      \* DEFAULT_KEYMAP, the one the page holds ("page") and
                      \* the one the bridge made for itself ("own")
  \* observation of the task that ran last
  task,               \* the task: [kind, sock, code, raw, retain]
  trace,              \* what it logged, settled and invoked, in order
  transmitted,        \* the messages it put on the wire, in order: <<[sock, msg]>>
  emitted,            \* the events it passed to the callbacks, in order, as
                      \* the callback saw them
  \* history
  stopRequested       \* stop() took effect and start() has not been called since

vars == <<ws, reconnectAttempts, maxReconnectAttempts, isConnecting,
          isConnected, reconnectTimers, sockets, isStarted, keymap,
          isCapturing, captureComposition, captureModifiers, listeners,
          modifierState, callbacks, objects, held, returned, keymaps, task,
          trace, transmitted, emitted, stopRequested>>

\* The whole state as one record, on which the methods operate.
Cur ==
  [ws |-> ws, reconnectAttempts |-> reconnectAttempts,
   maxReconnectAttempts |-> maxReconnectAttempts,
   isConnecting |-> isConnecting, isConnected |-> isConnected,
   reconnectTimers |-> reconnectTimers, sockets |-> sockets,
   isStarted |-> isStarted, keymap |-> keymap, isCapturing |-> isCapturing,
   captureComposition |-> captureComposition,
   captureModifiers |-> captureModifiers, listeners |-> listeners,
   modifierState |-> modifierState, callbacks |-> callbacks,
   objects |-> objects, held |-> held, returned |-> returned,
   keymaps |-> keymaps,
   task |-> task, trace |-> trace, transmitted |-> transmitted,
   emitted |-> emitted, stopRequested |-> stopRequested]

\* The state a task leaves behind.
Commit(st) ==
  /\ ws' = st.ws
  /\ reconnectAttempts' = st.reconnectAttempts
  /\ maxReconnectAttempts' = st.maxReconnectAttempts
  /\ isConnecting' = st.isConnecting
  /\ isConnected' = st.isConnected
  /\ reconnectTimers' = st.reconnectTimers
  /\ sockets' = st.sockets
  /\ isStarted' = st.isStarted
  /\ keymap' = st.keymap
  /\ isCapturing' = st.isCapturing
  /\ captureComposition' = st.captureComposition
  /\ captureModifiers' = st.captureModifiers
  /\ listeners' = st.listeners
  /\ modifierState' = st.modifierState
  /\ callbacks' = st.callbacks
  /\ objects' = st.objects
  /\ held' = st.held
  /\ returned' = st.returned
  /\ keymaps' = st.keymaps
  /\ task' = st.task
  /\ trace' = st.trace
  /\ transmitted' = st.transmitted
  /\ emitted' = st.emitted
  /\ stopRequested' = st.stopRequested

\* The state at the beginning of a task.
Begin(kind, sock, code) ==
  [Cur EXCEPT !.task = [kind |-> kind, sock |-> sock, code |-> code,
                        raw |-> NoRaw, retain |-> FALSE],
              !.trace = <<>>, !.transmitted = <<>>, !.emitted = <<>>]

Range(seq) == {seq[i] : i \in 1..Len(seq)}

Count(seq, x) == Cardinality({i \in 1..Len(seq) : seq[i] = x})

(***************************************************************************)
(* KeyboardEventCapture: start and stop                                    *)
(***************************************************************************)

\* this.<handler>.bind(this): every call creates a new function object, one
\* that is none of the functions registered as listeners
bind(st) ==
  1 + Cardinality({st.listeners[i].fn : i \in 1..Len(st.listeners)})

\* target.addEventListener(type, fn, true): appended unless the same function
\* is already registered for the type
addEventListener(st, type, fn) ==
  IF \E i \in 1..Len(st.listeners) :
        st.listeners[i].type = type /\ st.listeners[i].fn = fn
  THEN st
  ELSE [st EXCEPT !.listeners = Append(@, [type |-> type, fn |-> fn])]

\* target.removeEventListener(type, fn, true): removes the registration of
\* that very function object, if there is one
removeEventListener(st, type, fn) ==
  [st EXCEPT !.listeners =
     SelectSeq(@, LAMBDA l : ~(l.type = type /\ l.fn = fn))]

\* addEventListener(type, this.handler.bind(this), true)
addBound(st, type) ==
  addEventListener(st, type, bind(st))

\* removeEventListener(type, this.handler.bind(this), true)
removeBound(st, type) ==
  removeEventListener(st, type, bind(st))

\* KeyboardEventCapture.start()
capture_start(st) ==
  IF st.isCapturing THEN st
  ELSE LET k == addBound(addBound(st, "keydown"), "keyup")
           c == IF k.captureComposition
                THEN addBound(addBound(addBound(k, "compositionstart"),
                                       "compositionupdate"), "compositionend")
                ELSE k
       IN [c EXCEPT !.isCapturing = TRUE]

\* KeyboardEventCapture.stop()
capture_stop(st) ==
  IF ~st.isCapturing THEN st
  ELSE LET k == removeBound(removeBound(st, "keydown"), "keyup")
           c == IF k.captureComposition
                THEN removeBound(removeBound(removeBound(k, "compositionstart"),
                                             "compositionupdate"), "compositionend")
                ELSE k
       IN [c EXCEPT !.isCapturing = FALSE]

(***************************************************************************)
(* The heap of ModifierState objects                                       *)
(***************************************************************************)

\* the objects something still refers to: the tracker's, the one of the event
\* the page kept, the one the page got from getModifierState()
roots(st) ==
  {st.modifierState} \cup st.returned
    \cup (IF st.held.type = "none" THEN {} ELSE {st.held.modifiers})

\* the id of a new object: the least id nothing refers to
alloc(st) ==
  CHOOSE id \in 1..(Cardinality(roots(st)) + 1) :
    /\ id \notin roots(st)
    /\ \A other \in 1..(id - 1) : other \in roots(st)

\* { ...this.modifierState }: a new object with the fields of the tracker's
spread(st) ==
  LET new == alloc(st)
  IN [st EXCEPT !.objects =
        [id \in (DOMAIN @) \cup {new} |->
           IF id = new THEN @[st.modifierState] ELSE @[id]]]

\* garbage collection, at the end of a task: the objects nothing refers to
\* are gone and the others are renumbered (ids are not observable): the
\* tracker's object first, then the kept event's, then the page's copy
collect(st) ==
  LET kept == IF st.held.type = "none" THEN {} ELSE {st.held.modifiers}
      newId(id) == IF id = st.modifierState THEN 1
                   ELSE IF id \in kept \/ kept \subseteq {st.modifierState} THEN 2
                   ELSE 3
  IN [st EXCEPT
        !.objects = [n \in {newId(id) : id \in roots(st)} |->
                       @[CHOOSE id \in roots(st) : newId(id) = n]],
        !.modifierState = 1,
        !.held = IF @.type = "none" THEN @
                 ELSE [@ EXCEPT !.modifiers = newId(@)],
        !.returned = {newId(id) : id \in @}]

\* an event as its reader sees it: the modifiers object in place of its id
deref(st, event) ==
  IF "modifiers" \in DOMAIN event
  THEN [event EXCEPT !.modifiers = st.objects[@]]
  ELSE event

\* JSON.stringify(event): the text carries the content of the event at the
\* time of the call, the modifiers object and the keymap object included
JSON_stringify(st, event) ==
  IF "keymap" \in DOMAIN event
  THEN [event EXCEPT !.keymap = st.keymaps[@]]
  ELSE deref(st, event)

\* the value of JSON.parse(text), or its SyntaxError
JSON_parse(text) ==
  CASE text = "{\"type\":\"connection_established\"}" ->
         [ok |-> TRUE, null |-> FALSE, type |-> "connection_established"]
    [] text = "null" -> [ok |-> TRUE, null |-> TRUE]
    [] OTHER -> [ok |-> FALSE]

(***************************************************************************)
(* WebSocketClient                                                         *)
(***************************************************************************)

\* log(message): the debug log, kept for the current task
log(st, message) == [st EXCEPT !.trace = Append(@, message)]

\* get connected()
connected(st) == st.isConnected

\* WebSocket.send(message) of the browser on the current socket: a socket that
\* is still connecting throws, an open one transmits, a closing or closed one
\* discards the message silently.
send(st, event) ==
  IF ~st.isConnected \/ st.ws = NoSocket
  THEN log(st, "throw: WebSocket not connected")
  ELSE LET rs == st.sockets[st.ws].readyState IN
       IF rs = "CONNECTING"
       THEN log(log(st, "Failed to send event"), "throw: InvalidStateError")
       ELSE IF rs = "OPEN"
       THEN log([st EXCEPT !.transmitted =
                          Append(@, [sock |-> st.ws,
                                     msg |-> JSON_stringify(st, event)])],
                "Sent event")
       ELSE log(st, "Sent event")

\* the exceptions send() throws: its own Error, and the one of the browser's
\* WebSocket.send, which it throws again
SendErrors == {"throw: WebSocket not connected", "throw: InvalidStateError"}

\* whether the call that led to st ended by throwing out of send()
threw(st) ==
  /\ st.trace # <<>>
  /\ st.trace[Len(st.trace)] \in SendErrors

\* try { ... } catch { }: an exception thrown by the block goes no further
catch(st) == IF threw(st) THEN log(st, "caught") ELSE st

\* KeyboardBridge.handleDisconnect, installed as wsClient.onDisconnect
handleDisconnect(st) == log(st, "onDisconnect")

\* KeyboardBridge.handleConnect, installed as wsClient.onConnect: the keymap
\* message, then the connect message; a throwing send is swallowed
handleConnect(st) ==
  LET k == catch(send(log(st, "onConnect"),
                      [type |-> "keymap", keymap |-> st.keymap]))
  IN catch(send(k, [type |-> "connect"]))

\* KeyboardBridge.handleError, installed as wsClient.onError
bridge_handleError(st) == log(st, "onError")

\* attemptReconnect without its test of the cap
attemptReconnect_uncapped(st) ==
  LET s1 == [st EXCEPT !.reconnectAttempts = @ + 1]
  IN [log(s1, "Attempting to reconnect") EXCEPT !.reconnectTimers = @ + 1]

\* WebSocketClient.attemptReconnect: the setTimeout callback is a pending
\* reconnect timer
attemptReconnect(st) ==
  IF st.reconnectAttempts >= st.maxReconnectAttempts
  THEN log(st, "Max reconnection attempts reached")
  ELSE LET s1 == [st EXCEPT !.reconnectAttempts = @ + 1]
       IN [log(s1, "Attempting to reconnect") EXCEPT !.reconnectTimers = @ + 1]

\* WebSocketClient.handleOpen
handleOpen(st) ==
  handleConnect([st EXCEPT !.isConnected = TRUE, !.isConnecting = FALSE,
                           !.reconnectAttempts = 0])

\* handleClose notifying onDisconnect on every closure, also when it reconnects
handleClose_alwaysNotifies(st, code) ==
  LET s1 == log([st EXCEPT !.isConnected = FALSE, !.isConnecting = FALSE],
                "WebSocket closed")
  IN IF code # NormalClosure /\ s1.reconnectAttempts < s1.maxReconnectAttempts
     THEN handleDisconnect(attemptReconnect(s1))
     ELSE handleDisconnect(s1)

\* handleClose without its test of the close code
handleClose_anyCode(st, code) ==
  LET s1 == log([st EXCEPT !.isConnected = FALSE, !.isConnecting = FALSE],
                "WebSocket closed")
  IN IF s1.reconnectAttempts < s1.maxReconnectAttempts
     THEN attemptReconnect(s1)
     ELSE handleDisconnect(s1)

\* WebSocketClient.handleClose(event), event.code = code
handleClose(st, code) ==
  LET s1 == log([st EXCEPT !.isConnected = FALSE, !.isConnecting = FALSE],
                "WebSocket closed")
  IN IF code # NormalClosure /\ s1.reconnectAttempts < s1.maxReconnectAttempts
     THEN attemptReconnect(s1)
     ELSE handleDisconnect(s1)

\* WebSocketClient.handleError
handleError(st) == bridge_handleError(log(st, "WebSocket error"))

\* KeyboardBridge.handleMessage, installed as wsClient.onMessage
bridge_handleMessage(st) == log(st, "onMessage")

\* handleMessage without its try/catch
handleMessage_noCatch(st, data) ==
  LET parsed == JSON_parse(data) IN
  IF ~parsed.ok THEN log(st, "throw: SyntaxError")
  ELSE IF parsed.null THEN log(st, "throw: TypeError")
  ELSE bridge_handleMessage(log(st, "Received message"))

\* WebSocketClient.handleMessage(event), event.data = data: JSON.parse throws
\* on a text that is no JSON, and reading data.type throws on null; both are
\* caught
handleMessage(st, data) ==
  LET parsed == JSON_parse(data) IN
  IF ~parsed.ok THEN log(st, "Failed to parse message")
  ELSE IF parsed.null THEN log(st, "Failed to parse message")
  ELSE bridge_handleMessage(log(st, "Received message"))

\* WebSocketClient.disconnect(): close() moves a connecting or open socket to
\* CLOSING; its close event comes later
disconnect(st) ==
  LET s1 == IF st.ws # NoSocket
            THEN [st EXCEPT
                    !.sockets[st.ws].readyState =
                       IF @ \in {"CONNECTING", "OPEN"} THEN "CLOSING" ELSE @,
                    !.ws = NoSocket]
            ELSE st
  IN log([s1 EXCEPT !.isConnected = FALSE, !.isConnecting = FALSE],
         "Disconnected from WebSocket server")

(***************************************************************************)
(* start() and connect(): the parts before and after each await            *)
(***************************************************************************)

\* KeyboardBridge.start() after `await this.wsClient.connect()` has returned
start_resolved(st) ==
  log([capture_start(st) EXCEPT !.isStarted = TRUE], "start resolved")

\* KeyboardBridge.start() when the awaited connect() has thrown
start_rejected(st) == log(st, "start rejected")

\* the reconnect timer's connect().catch(...) handler
reconnect_catch(st) == attemptReconnect(log(st, "Reconnection failed"))

\* connect() after its await, for the call that created socket s: the
\* statements after the await when the promise resolved, the catch block when
\* it rejected, and then the continuation of the caller
connect_resolved(st, s) ==
  LET s1 == log(st, "Connected to WebSocket server")
  IN IF s1.sockets[s].caller = "start" THEN start_resolved(s1) ELSE s1

connect_rejected(st, s) ==
  LET s1 == log([st EXCEPT !.isConnecting = FALSE], "Failed to connect")
  IN IF s1.sockets[s].caller = "start" THEN start_rejected(s1)
     ELSE reconnect_catch(s1)

\* the promise executor's setTimeout callback: reject(new Error('Connection timeout'))
connect_timeout(st, s) ==
  LET s1 == [st EXCEPT !.sockets[s].timeout = FALSE] IN
  IF s1.sockets[s].promise = "pending"
  THEN connect_rejected([s1 EXCEPT !.sockets[s].promise = "rejected"], s)
  ELSE s1

\* the promise executor's ws.onopen leaving reconnectAttempts as it is
connect_onopen_noReset(st, s) ==
  LET s1 == [st EXCEPT !.sockets[s].timeout = FALSE,
                       !.isConnecting = FALSE, !.isConnected = TRUE] IN
  IF s1.sockets[s].promise = "pending"
  THEN connect_resolved([s1 EXCEPT !.sockets[s].promise = "resolved"], s)
  ELSE s1

\* the promise executor's ws.onopen leaving isConnecting as it is
connect_onopen_stillConnecting(st, s) ==
  LET s1 == [st EXCEPT !.sockets[s].timeout = FALSE,
                       !.isConnected = TRUE, !.reconnectAttempts = 0] IN
  IF s1.sockets[s].promise = "pending"
  THEN connect_resolved([s1 EXCEPT !.sockets[s].promise = "resolved"], s)
  ELSE s1

\* the promise executor's ws.onopen
connect_onopen(st, s) ==
  LET s1 == [st EXCEPT !.sockets[s].timeout = FALSE,
                       !.isConnecting = FALSE, !.isConnected = TRUE,
                       !.reconnectAttempts = 0] IN
  IF s1.sockets[s].promise = "pending"
  THEN connect_resolved([s1 EXCEPT !.sockets[s].promise = "resolved"], s)
  ELSE s1

\* the promise executor's ws.onerror
connect_onerror(st, s) ==
  LET s1 == [st EXCEPT !.sockets[s].timeout = FALSE] IN
  IF s1.sockets[s].promise = "pending"
  THEN connect_rejected([s1 EXCEPT !.sockets[s].promise = "rejected"], s)
  ELSE s1

\* new WebSocket(url) with the handlers connect() assigns: the four bound
\* methods first, then the promise executor, which runs at once, assigns
\* onopen and onerror again and arms the handshake timeout
newSocket(caller) ==
  LET assigned == [readyState |-> "CONNECTING", opened |-> FALSE,
                   onopen |-> "handleOpen", onclose |-> "handleClose",
                   onerror |-> "handleError", onmessage |-> "handleMessage",
                   promise |-> "pending", timeout |-> FALSE, caller |-> caller]
  IN [assigned EXCEPT !.timeout = TRUE, !.onopen = "connect_onopen",
                      !.onerror = "connect_onerror"]

\* WebSocketClient.connect() up to its await, called by caller ("start" or
\* "timer"); the early return resolves at once
connect(st, caller) ==
  IF st.isConnecting \/ st.isConnected
  THEN IF caller = "start" THEN start_resolved(st) ELSE st
  ELSE [st EXCEPT !.isConnecting = TRUE,
                  !.sockets = Append(@, newSocket(caller)),
                  !.ws = Len(st.sockets) + 1]

\* whether connect() would create a socket
CreatesSocket(st) == ~(st.isConnecting \/ st.isConnected)

\* KeyboardBridge.start()
start(st) ==
  IF st.isStarted THEN log(st, "start resolved")
  ELSE connect(st, "start")

\* KeyboardBridge.stop()
stop(st) ==
  IF ~st.isStarted THEN st
  ELSE [disconnect(capture_stop(st)) EXCEPT !.isStarted = FALSE]

\* KeyboardBridge.setKeymap(keymap), k the content of the argument:
\* this.keymap = { ...keymap } makes an object of the bridge's own (the one
\* it had made before, if any, is garbage from here on)
setKeymap(st, k) == [st EXCEPT !.keymaps.own = k, !.keymap = "own"]

\* the state in which the page has made the modifiers object of an event of
\* its own
pageObject(st) ==
  LET new == alloc(st)
  IN [st EXCEPT !.objects =
        [id \in (DOMAIN @) \cup {new} |->
           IF id = new THEN InitialModifierState ELSE @[id]]]

\* the event object of a type the page passes to sendEvent
pageEvent(st, type) ==
  IF type = "keymap" THEN [type |-> "keymap", keymap |-> "page"]
  ELSE [type |-> "keyboard_event", keyCode |-> PlainKey.keyCode,
        char |-> PlainKey.key, modifiers |-> alloc(st),
        eventType |-> "keydown", timestamp |-> "Date.now()",
        location |-> PlainKey.location, repeat |-> PlainKey.repeat]

\* KeyboardBridge.sendEvent(event): no try/catch, so what send throws
\* reaches the page (the trace of the task ends with the throw)
sendEvent(st, event) ==
  IF connected(st) THEN send(st, event) ELSE st

\* dispatch of the socket's open, error and close events to the handler in
\* the socket's onopen, onerror and onclose property
fire_open(st, s) ==
  IF st.sockets[s].onopen = "connect_onopen" THEN connect_onopen(st, s)
  ELSE handleOpen(st)

fire_error(st, s) ==
  IF st.sockets[s].onerror = "connect_onerror" THEN connect_onerror(st, s)
  ELSE handleError(st)

fire_close(st, s, code) == handleClose(st, code)

fire_message(st, s, data) == handleMessage(st, data)


(***************************************************************************)
(* KeyboardEventCapture handlers and the bridge's forwarding               *)
(***************************************************************************)

\* handleKeyboardEvent looking at the socket instead of wsClient.connected:
\* it transmits whenever the current socket is open
handleKeyboardEvent_bySocket(st, event) ==
  IF st.ws # NoSocket /\ st.sockets[st.ws].readyState = "OPEN"
  THEN log([st EXCEPT !.transmitted =
                        Append(@, [sock |-> st.ws,
                                   msg |-> JSON_stringify(st, event)])],
           "Sent event")
  ELSE st

\* handleKeyboardEvent without its try/catch
handleKeyboardEvent_noCatch(st, event) ==
  IF ~connected(st) THEN st ELSE send(st, event)

\* KeyboardBridge.handleKeyboardEvent, installed as eventCapture.onKeyboardEvent
handleKeyboardEvent(st, event) ==
  IF ~connected(st) THEN st ELSE catch(send(st, event))

\* KeyboardBridge.handleCompositionEvent, installed as eventCapture.onCompositionEvent
handleCompositionEvent(st, event) ==
  IF ~connected(st) THEN st ELSE catch(send(st, event))

\* the page's own callback: it keeps the event when it chooses to
page_onEvent(st, event) ==
  IF st.task.retain THEN [st EXCEPT !.held = event] ELSE st

\* this.onKeyboardEvent?.(keyboardEvent)
onKeyboardEvent(st, event) ==
  LET s1 == [st EXCEPT !.emitted = Append(@, deref(st, event))]
  IN IF s1.callbacks = "bridge" THEN handleKeyboardEvent(s1, event)
     ELSE page_onEvent(s1, event)

\* this.onCompositionEvent?.(compositionEvent)
onCompositionEvent(st, event) ==
  LET s1 == [st EXCEPT !.emitted = Append(@, deref(st, event))]
  IN IF s1.callbacks = "bridge" THEN handleCompositionEvent(s1, event)
     ELSE page_onEvent(s1, event)

\* event.getModifierState?.(name) || false
lockState(raw, name) ==
  IF raw.getModifierState.available THEN raw.getModifierState[name] ELSE FALSE

\* updateModifierState counting the right-hand Alt as altGr and not as alt
updateModifierState_leftAlt(st, raw) ==
  IF ~st.captureModifiers THEN st
  ELSE [st EXCEPT !.objects[st.modifierState] =
          [ctrl |-> raw.ctrlKey,
           alt |-> raw.altKey /\ raw.location # RightLocation,
           shift |-> raw.shiftKey, meta |-> raw.metaKey,
           altGr |-> raw.altKey /\ raw.location = RightLocation,
           capsLock |-> lockState(raw, "CapsLock"),
           numLock |-> lockState(raw, "NumLock"),
           scrollLock |-> lockState(raw, "ScrollLock")]]

\* updateModifierState deriving altGr from the alt flag alone
updateModifierState_anyAlt(st, raw) ==
  IF ~st.captureModifiers THEN st
  ELSE [st EXCEPT !.objects[st.modifierState] =
          [ctrl |-> raw.ctrlKey, alt |-> raw.altKey, shift |-> raw.shiftKey,
           meta |-> raw.metaKey,
           altGr |-> raw.altKey,
           capsLock |-> lockState(raw, "CapsLock"),
           numLock |-> lockState(raw, "NumLock"),
           scrollLock |-> lockState(raw, "ScrollLock")]]

\* KeyboardEventCapture.updateModifierState: the fields of the tracker's
\* object are assigned in place
updateModifierState(st, raw) ==
  IF ~st.captureModifiers THEN st
  ELSE [st EXCEPT !.objects[st.modifierState] =
          [ctrl |-> raw.ctrlKey, alt |-> raw.altKey, shift |-> raw.shiftKey,
           meta |-> raw.metaKey,
           altGr |-> raw.altKey /\ raw.location = RightLocation,
           capsLock |-> lockState(raw, "CapsLock"),
           numLock |-> lockState(raw, "NumLock"),
           scrollLock |-> lockState(raw, "ScrollLock")]]

\* KeyboardEventCapture.getModifierState(): a copy
getModifierState(st) ==
  LET s1 == [st EXCEPT !.returned = {}]
  IN [spread(s1) EXCEPT !.returned = {alloc(s1)}]

\* KeyboardEventCapture.resetModifierState(): a new object
resetModifierState(st) ==
  LET id == alloc(st)
  IN [st EXCEPT !.objects =
                   [o \in (DOMAIN @) \cup {id} |->
                      IF o = id THEN InitialModifierState ELSE @[o]],
                !.modifierState = id]

\* handleKeyDown handing out the tracker's own object as the event's modifiers
handleKeyDown_shared(st, raw) ==
  LET s1 == updateModifierState(st, raw)
  IN onKeyboardEvent(s1,
       [type |-> "keyboard_event", keyCode |-> raw.keyCode, char |-> raw.key,
        modifiers |-> s1.modifierState, eventType |-> "keydown",
        timestamp |-> "Date.now()", location |-> raw.location,
        repeat |-> raw.repeat])

\* KeyboardEventCapture.handleKeyDown (preventDefault and stopPropagation act
\* on the host only; the clock reading is not computed, the timestamp field
\* holds the token "Date.now()")
handleKeyDown(st, raw) ==
  LET s1 == updateModifierState(st, raw)
  IN onKeyboardEvent(spread(s1),
       [type |-> "keyboard_event", keyCode |-> raw.keyCode, char |-> raw.key,
        modifiers |-> alloc(s1), eventType |-> "keydown",
        timestamp |-> "Date.now()", location |-> raw.location,
        repeat |-> raw.repeat])

\* KeyboardEventCapture.handleKeyUp
handleKeyUp(st, raw) ==
  LET s1 == updateModifierState(st, raw)
  IN onKeyboardEvent(spread(s1),
       [type |-> "keyboard_event", keyCode |-> raw.keyCode, char |-> raw.key,
        modifiers |-> alloc(s1), eventType |-> "keyup",
        timestamp |-> "Date.now()", location |-> raw.location])

\* the three composition handlers giving the text no span
compositionEvent_noSpan(st, raw) ==
  [type |-> "composition_event", compositionText |-> raw.data,
   compositionStart |-> 0, compositionEnd |-> 0,
   modifiers |-> alloc(st), timestamp |-> "Date.now()"]

\* the composition_event built by the three composition handlers
compositionEvent(st, raw) ==
  [type |-> "composition_event", compositionText |-> raw.data,
   compositionStart |-> 0, compositionEnd |-> Len(raw.data),
   modifiers |-> alloc(st), timestamp |-> "Date.now()"]

\* KeyboardEventCapture.handleCompositionStart
handleCompositionStart(st, raw) ==
  onCompositionEvent(spread(st), compositionEvent(st, raw))

\* KeyboardEventCapture.handleCompositionUpdate
handleCompositionUpdate(st, raw) ==
  onCompositionEvent(spread(st), compositionEvent(st, raw))

\* KeyboardEventCapture.handleCompositionEnd
handleCompositionEnd(st, raw) ==
  onCompositionEvent(spread(st), compositionEvent(st, raw))

\* the handler start() registers for a signal type
handler(st, type, raw) ==
  CASE type = "keydown" -> handleKeyDown(st, raw)
    [] type = "keyup" -> handleKeyUp(st, raw)
    [] type = "compositionstart" -> handleCompositionStart(st, raw)
    [] type = "compositionupdate" -> handleCompositionUpdate(st, raw)
    [] type = "compositionend" -> handleCompositionEnd(st, raw)

\* the target dispatching a raw signal: every listener registered for its
\* type is invoked, in registration order, from the i-th on
RECURSIVE dispatchFrom(_, _, _, _)
dispatchFrom(st, i, type, raw) ==
  IF i > Len(st.listeners) THEN st
  ELSE dispatchFrom(IF st.listeners[i].type = type
                    THEN handler(st, type, raw) ELSE st,
                    i + 1, type, raw)

dispatch(st, type, raw) == dispatchFrom(st, 1, type, raw)

(***************************************************************************)
(* Tasks                                                                   *)
(***************************************************************************)

\* the state after construction, the callbacks installed by cb
Constructed(cb) ==
  /\ ws = NoSocket
  /\ reconnectAttempts = 0
  /\ isConnecting = FALSE
  /\ isConnected = FALSE
  /\ reconnectTimers = 0
  /\ sockets = <<>>
  /\ isStarted = FALSE
  /\ isCapturing = FALSE
  /\ captureComposition = TRUE
  /\ listeners = <<>>
  /\ modifierState = 1
  /\ callbacks = cb
  /\ objects = [id \in {1} |-> InitialModifierState]
  /\ held = NoEvent
  /\ returned = {}
  /\ task = [kind |-> "init", sock |-> NoSocket, code |-> 0,
             raw |-> NoRaw, retain |-> FALSE]
  /\ trace = <<>>
  /\ transmitted = <<>>
  /\ emitted = <<>>
  /\ stopRequested = FALSE

\* the WebSocketClient constructor: options.maxReconnectAttempts || 10
\* (an absent option is falsy as 0 is)
WebSocketClient(option) ==
  maxReconnectAttempts =
    IF option = 0 THEN DefaultMaxReconnectAttempts ELSE option

\* the KeyboardBridge constructor: this.keymap = keymap || { ...DEFAULT_KEYMAP },
\* given telling whether the page passed the keymap object it holds
KeyboardBridge(given) ==
  /\ keymaps = [DEFAULT_KEYMAP |-> DEFAULT_KEYMAP, page |-> CustomKeymap,
                own |-> DEFAULT_KEYMAP]
  /\ keymap = IF given THEN "page" ELSE "own"

\* new KeyboardBridge(options) with options.maxReconnectAttempts =
\* MaxReconnectAttempts and no keymap: the capture has the default options
Init ==
  /\ Constructed("bridge")
  /\ WebSocketClient(MaxReconnectAttempts)
  /\ KeyboardBridge(FALSE)
  /\ captureModifiers = TRUE

\* new KeyboardEventCapture(options) by a page that installs its own
\* callbacks; options.captureModifiers is the page's choice
CaptureInit ==
  /\ Constructed("page")
  /\ WebSocketClient(MaxReconnectAttempts)
  /\ KeyboardBridge(FALSE)
  /\ captureModifiers \in BOOLEAN

\* the page calls bridge.start() (on a started bridge the call returns at once
\* and changes nothing: it is no step)
Start ==
  /\ ~isStarted
  /\ ~CreatesSocket(Cur) \/ Len(sockets) < MaxSockets
  /\ Commit([start(Begin("start", NoSocket, 0)) EXCEPT !.stopRequested = FALSE])

\* the page calls bridge.stop() (on a bridge that is not started the call
\* returns at once and changes nothing: it is no step)
Stop ==
  /\ isStarted
  /\ Commit([stop(Begin("stop", NoSocket, 0)) EXCEPT !.stopRequested = TRUE])

\* a reconnect timer of attemptReconnect fires: connect().catch(...), in a
\* run that creates max sockets at most
ReconnectTimerWithin(max) ==
  /\ reconnectTimers > 0
  /\ ~CreatesSocket(Cur) \/ Len(sockets) < max
  /\ Commit(connect([Begin("timer", NoSocket, 0) EXCEPT !.reconnectTimers = @ - 1],
                 "timer"))

ReconnectTimer == ReconnectTimerWithin(MaxSockets)

\* the handshake of socket s succeeds: the open event
SocketOpen(s) ==
  /\ sockets[s].readyState = "CONNECTING"
  /\ Commit(fire_open([Begin("open", s, 0) EXCEPT
                      !.sockets[s].readyState = "OPEN",
                      !.sockets[s].opened = TRUE], s))

\* the connection of a socket that never opened fails (also after close() was
\* called on it): the error event, then the close event with code 1006, in
\* one task, the promise continuations running between the two
SocketFail(s) ==
  /\ ~sockets[s].opened
  /\ sockets[s].readyState \in {"CONNECTING", "CLOSING"}
  /\ Commit(fire_close(fire_error([Begin("fail", s, AbnormalClosure) EXCEPT
                                  !.sockets[s].readyState = "CLOSED"], s),
                    s, AbnormalClosure))

\* an established connection closes with a code: the close event, preceded by
\* the error event when the connection was lost
SocketClose(s, code) ==
  /\ sockets[s].opened
  /\ sockets[s].readyState \in {"OPEN", "CLOSING"}
  /\ LET s0 == [Begin("close", s, code) EXCEPT !.sockets[s].readyState = "CLOSED"]
         s1 == IF code = AbnormalClosure THEN fire_error(s0, s) ELSE s0
     IN Commit(fire_close(s1, s, code))

\* the 10000 ms handshake timeout of the connect() call that created s fires
HandshakeTimeout(s) ==
  /\ sockets[s].timeout
  /\ Commit(connect_timeout(Begin("timeout", s, 0), s))

\* whether the target has a listener for a signal type (a signal nobody
\* listens to never reaches the program: it is no step)
Listening(type) == \E i \in 1..Len(listeners) : listeners[i].type = type

\* the task of a raw signal: what the host dispatched, and whether the
\* page's callback keeps the event
Signal(type, raw, retain) ==
  [Begin("signal", NoSocket, 0) EXCEPT
     !.task.raw = [type |-> type, event |-> raw], !.task.retain = retain]

\* a raw keydown or keyup signal reaches the capture target
RawKey(type, raw, retain) ==
  /\ Listening(type)
  /\ Commit(collect(dispatch(Signal(type, raw, retain), type, raw)))

\* a raw composition signal reaches the capture target
RawComposition(type, data, retain) ==
  /\ Listening(type)
  /\ Commit(collect(dispatch(Signal(type, [data |-> data], retain),
                            type, [data |-> data])))

\* a message event of socket s (delivered while the socket is open)
SocketMessage(s, data) ==
  /\ sockets[s].readyState = "OPEN"
  /\ Commit(fire_message([Begin("message", s, 0) EXCEPT
                            !.task.raw = [type |-> "message",
                                          event |-> [data |-> data]]],
                         s, data))

\* the page calls bridge.setKeymap(k)
SetKeymap(k) ==
  Commit(setKeymap(Begin("setKeymap", NoSocket, 0), k))

\* the page calls bridge.sendEvent(event) with an event of the given type
SendEvent(type) ==
  LET s0 == [Begin("sendEvent", NoSocket, 0) EXCEPT
               !.task.raw = [type |-> "sendEvent", event |-> [type |-> type]]]
  IN Commit(collect(sendEvent(pageObject(s0), pageEvent(s0, type))))

\* the page writes an entry of the keymap object it holds
PageWritesKeymap(key) ==
  Commit([Begin("writeKeymap", NoSocket, 0) EXCEPT !.keymaps.page["65"] = key])

\* the page calls eventCapture.start()
CaptureStart ==
  /\ ~isCapturing
  /\ Commit(capture_start(Begin("capture.start", NoSocket, 0)))

\* the page calls resetModifierState()
ResetModifierState ==
  Commit(collect(resetModifierState(Begin("resetModifierState", NoSocket, 0))))

\* the page calls getModifierState() and holds the result
GetModifierState ==
  Commit(collect(getModifierState(Begin("getModifierState", NoSocket, 0))))

\* the fields of a getModifierState() result the page writes
PageWrites == {"ctrl", "altGr"}

\* the page writes a field of the getModifierState() result it holds
MutateReturned(field) ==
  /\ returned # {}
  /\ Commit([Begin("mutate", NoSocket, 0) EXCEPT
               !.objects = [id \in DOMAIN @ |->
                              IF id \in returned
                              THEN [@[id] EXCEPT ![field] = ~@]
                              ELSE @[id]]])

\* the runs of a KeyboardBridge
Next ==
  \/ Start
  \/ Stop
  \/ ReconnectTimer
  \/ \E s \in 1..Len(sockets) : SocketOpen(s)
  \/ \E s \in 1..Len(sockets) : SocketFail(s)
  \/ \E s \in 1..Len(sockets) : \E code \in CloseCodes : SocketClose(s, code)
  \/ \E s \in 1..Len(sockets) : HandshakeTimeout(s)
  \/ \E type \in KeySignals : \E raw \in BridgeKeys : RawKey(type, raw, FALSE)
  \/ \E type \in BridgeCompositionSignals : \E data \in BridgeTexts :
       RawComposition(type, data, FALSE)
  \/ SendEvent("keyboard_event")

Spec == Init /\ [][Next]_vars

\* the runs of a KeyboardBridge whose server sends messages and whose page
\* replaces the keymap and sends events of its own with sendEvent, no raw
\* signal reaching the page meanwhile
SessionNext ==
  \/ Start
  \/ Stop
  \/ ReconnectTimer
  \/ \E s \in 1..Len(sockets) : SocketOpen(s)
  \/ \E s \in 1..Len(sockets) : SocketFail(s)
  \/ \E s \in 1..Len(sockets) : \E code \in CloseCodes : SocketClose(s, code)
  \/ \E s \in 1..Len(sockets) : HandshakeTimeout(s)
  \/ \E s \in 1..Len(sockets) : \E data \in Payloads : SocketMessage(s, data)
  \/ \E k \in Keymaps : SetKeymap(k)
  \/ \E type \in PageEventTypes : SendEvent(type)

SessionSpec == Init /\ [][SessionNext]_vars

\* new KeyboardBridge(options, captureOptions, keymap) by a page that passes
\* the keymap object it holds, or none
KeymapInit ==
  /\ Constructed("bridge")
  /\ WebSocketClient(MaxReconnectAttempts)
  /\ \E given \in BOOLEAN : KeyboardBridge(given)
  /\ captureModifiers = TRUE

\* the runs of a KeyboardBridge whose page holds a keymap object, passes it
\* to setKeymap and writes to it
KeymapNext ==
  \/ SessionNext
  \/ SetKeymap(keymaps.page)
  \/ \E key \in PageKeys : PageWritesKeymap(key)

KeymapSpec == KeymapInit /\ [][KeymapNext]_vars

\* new KeyboardBridge(options) with options.maxReconnectAttempts = 0
ZeroCapInit ==
  /\ Constructed("bridge")
  /\ WebSocketClient(0)
  /\ KeyboardBridge(FALSE)
  /\ captureModifiers = TRUE

\* the runs of a KeyboardBridge configured with a retry cap of 0
ZeroCapSpec == ZeroCapInit /\ [][SessionNext]_vars

\* new KeyboardBridge(options) with options.maxReconnectAttempts = RetryCap
RetryInit ==
  /\ Constructed("bridge")
  /\ WebSocketClient(RetryCap)
  /\ KeyboardBridge(FALSE)
  /\ captureModifiers = TRUE

\* number of WebSocket objects the client creates in a retry run: two
\* rounds of RetryCap
RetrySockets == 2 * RetryCap

\* the retry runs of a KeyboardBridge that the page starts once: every
\* socket may open, fail, time out and close with any code, a socket
\* opening, if it does, before the next one is created (the late open of an
\* earlier socket belongs to the runs of Spec)
RetryNext ==
  \/ sockets = <<>> /\ Start
  \/ ReconnectTimerWithin(RetrySockets)
  \/ sockets # <<>> /\ SocketOpen(Len(sockets))
  \/ \E s \in 1..Len(sockets) : SocketFail(s)
  \/ \E s \in 1..Len(sockets) : \E code \in CloseCodes : SocketClose(s, code)
  \/ \E s \in 1..Len(sockets) : HandshakeTimeout(s)

\* the two kinds of setTimeout callback fire: a pending reconnect timer of
\* attemptReconnect, and the armed handshake timeout of a connect() call.
\* Nothing is assumed of the host: a socket may stay as it is for ever
RetryFairness ==
  /\ WF_vars(ReconnectTimerWithin(RetrySockets))
  /\ \A s \in 1..RetrySockets : WF_vars(s <= Len(sockets) /\ HandshakeTimeout(s))

RetrySpec == RetryInit /\ [][RetryNext]_vars /\ RetryFairness

\* the runs of a KeyboardEventCapture used by a page
CaptureNext ==
  \/ CaptureStart
  \/ ResetModifierState
  \/ GetModifierState
  \/ \E field \in PageWrites : MutateReturned(field)
  \/ \E type \in KeySignals : \E raw \in SomeKeys : \E retain \in BOOLEAN :
       RawKey(type, raw, retain)
  \/ \E type \in CompositionSignals : \E data \in Texts : \E retain \in BOOLEAN :
       RawComposition(type, data, retain)

CaptureSpec == CaptureInit /\ [][CaptureNext]_vars

\* the key handlers over every raw key signal
SignalNext ==
  \/ CaptureStart
  \/ \E type \in KeySignals : \E raw \in RawKeys : RawKey(type, raw, FALSE)

SignalSpec == CaptureInit /\ [][SignalNext]_vars

(***************************************************************************)
(* Properties                                                              *)
(***************************************************************************)

EventTypes == {"keyboard_event", "composition_event"}

\* the types of the messages a task transmitted on socket s, in order
TypesOn(s, out) ==
  LET RECURSIVE types(_)
      types(i) ==
        IF i > Len(out) THEN <<>>
        ELSE (IF out[i].sock = s THEN <<out[i].msg.type>> ELSE <<>>)
             \o types(i + 1)
  IN types(1)

\* the sockets that are connecting or open
Alive == {s \in 1..Len(sockets) : sockets[s].readyState \in {"CONNECTING", "OPEN"}}

\* C1: a captured keyboard_event or composition_event is put on the wire
\* only by the task that dispatches the raw signal (never by a later task,
\* so nothing is queued and replayed), and only when connected was true as
\* the signal was dispatched; a signal captured while not connected
\* transmits nothing. The one other task that transmits such a message is
\* the page's own sendEvent(event), also only when connected was true.
C1_DroppedWhenNotConnected ==
  [][\A i \in 1..Len(transmitted') :
        transmitted'[i].msg.type \in EventTypes
          => /\ isConnected
             /\ \/ task'.kind = "signal" /\ transmitted'[i].msg \in Range(emitted')
                \/ task'.kind = "sendEvent"]_vars

\* C1 witness: a raw signal was handled by a listener while the client was not
\* connected although its current socket is open, and nothing was transmitted.
C1_Witness ==
  /\ task.kind = "signal"
  /\ ~isConnected
  /\ ws # NoSocket
  /\ sockets[ws].readyState = "OPEN"
  /\ transmitted = <<>>

\* C2 (as claimed): the task in which a socket opens transmits exactly one
\* keymap message and then exactly one connect message on that socket.
C2_ReannounceOnConnect ==
  task.kind = "open" =>
    (isConnected /\ TypesOn(task.sock, transmitted) = <<"keymap", "connect">>)

\* C3 (as claimed): the task in which retry exhaustion is found (a failed
\* attempt meets the cap in attemptReconnect) invokes onDisconnect exactly
\* once and leaves no connection attempt scheduled or in progress, whether the
\* attempt failed by transport error or by handshake timeout.
C3_ExhaustionNotifiesOnce ==
  "Max reconnection attempts reached" \in Range(trace) =>
    /\ Count(trace, "onDisconnect") = 1
    /\ reconnectTimers = 0
    /\ ~isConnecting

\* C4: reconnectAttempts stays within 0..maxReconnectAttempts, and a task that
\* begins with the counter at the cap schedules no reconnect timer.
C4_AttemptsWithinCap ==
  /\ reconnectAttempts \in 0..MaxReconnectAttempts
  /\ [][/\ reconnectAttempts' \in 0..MaxReconnectAttempts
        /\ reconnectAttempts = MaxReconnectAttempts
             => reconnectTimers' <= reconnectTimers]_vars

\* C4 witness: attemptReconnect was called with the counter at the cap and
\* refused to schedule.
C4_Witness ==
  /\ reconnectAttempts = MaxReconnectAttempts
  /\ "Max reconnection attempts reached" \in Range(trace)

\* C5 (as claimed): between an effective stop() and the next start(), connected
\* stays false and no socket is created.
C5_ClosedAfterStop ==
  [][(stopRequested /\ stopRequested')
       => (~isConnected' /\ Len(sockets') = Len(sockets))]_vars

\* C6: when an established connection closes with a code other than 1000 while
\* reconnectAttempts < maxReconnectAttempts, the client is not connected
\* afterwards, one reconnect timer more is pending, and onDisconnect was not
\* invoked.
C6_AbnormalCloseReconnects ==
  [][(/\ task'.kind = "close"
      /\ task'.code # NormalClosure
      /\ reconnectAttempts < MaxReconnectAttempts)
       => (/\ ~isConnected'
           /\ reconnectTimers' = reconnectTimers + 1
           /\ "onDisconnect" \notin Range(trace'))]_vars

\* C6 witness: an established connection has just closed abnormally and a
\* reconnection attempt was scheduled.
C6_Witness ==
  /\ task.kind = "close"
  /\ task.code # NormalClosure
  /\ "Attempting to reconnect" \in Range(trace)
  /\ reconnectTimers > 0
  /\ ~isConnected

\* C7: when a connection closes with the normal-closure code 1000, the client
\* is not connected afterwards, no reconnect timer was scheduled by that
\* closure, and onDisconnect was invoked exactly once.
C7_NormalCloseNotifies ==
  [][(task'.kind = "close" /\ task'.code = NormalClosure)
       => (/\ ~isConnected'
           /\ reconnectTimers' = reconnectTimers
           /\ Count(trace', "onDisconnect") = 1)]_vars

\* C7 witness: a connection has just closed with code 1000 while attempts
\* remained, and onDisconnect was invoked.
C7_Witness ==
  /\ task.kind = "close"
  /\ task.code = NormalClosure
  /\ reconnectAttempts < MaxReconnectAttempts
  /\ "onDisconnect" \in Range(trace)

\* C8 (as claimed): a task in which connect() rejects (handshake timeout or
\* transport error) schedules a reconnect timer if attempts remained, and
\* none otherwise.
C8_FailedAttemptReconnects ==
  [][(task'.kind \in {"timeout", "fail"} /\ "Failed to connect" \in Range(trace'))
       => IF reconnectAttempts < MaxReconnectAttempts
          THEN reconnectTimers' > reconnectTimers
          ELSE reconnectTimers' = reconnectTimers]_vars

\* C9 (as claimed): a start() call rejects only when no reconnection is
\* scheduled or in progress, and resolves only when connected is true.
C9_StartSuspendsUntilSettled ==
  /\ "start rejected" \in Range(trace)
       => (reconnectTimers = 0 /\ ~isConnecting /\ Alive = {})
  /\ "start resolved" \in Range(trace) => isConnected

\* C10 (as claimed): at most one socket created by the client is connecting
\* or open.
C10_OneSocketAlive == Cardinality(Alive) <= 1

\* C11 (as claimed): a raw signal dispatched while capture is active invokes
\* the callback exactly once, with one normalized event.
C11_OneEventPerSignal ==
  (task.kind = "signal" /\ isCapturing) => Len(emitted) = 1

\* C12 (as claimed): a raw signal dispatched after stop() and before the next
\* start() invokes no callback.
C12_SilentAfterStop ==
  (task.kind = "signal" /\ ~isCapturing) => emitted = <<>>

\* C13 (as claimed): the task that dispatches one raw signal puts at most one
\* message on the wire, the event normalized from that signal, so that the
\* messages of a connection are the signals' events in arrival order, none
\* twice.
C13_ForwardedOnceInOrder ==
  task.kind = "signal" =>
    /\ Len(transmitted) <= 1
    /\ \A i \in 1..Len(transmitted) : transmitted[i].msg \in Range(emitted)

\* C14 (as claimed): every emitted event carries a sequence number, greater
\* than that of the event emitted before it.
C14_SequenceIncreases ==
  \A i \in 1..Len(emitted) :
    /\ "sequence" \in DOMAIN emitted[i]
    /\ i > 1 => emitted[i].sequence > emitted[i - 1].sequence

\* C15: after a raw key signal is processed with captureModifiers enabled, the
\* tracker's state and the modifiers of the emitted event have ctrl, alt,
\* shift and meta equal to the signal's flags, altGr equal to (alt flag and
\* location = 2), and the three lock fields equal to the host's answer, or
\* false when the host has no getModifierState.
C15_ModifiersFromSignal ==
  (task.kind = "signal" /\ task.raw.type \in KeySignals /\ captureModifiers) =>
    LET e == task.raw.event
        q == e.getModifierState
        m == objects[modifierState]
    IN /\ m.ctrl = e.ctrlKey /\ m.alt = e.altKey
       /\ m.shift = e.shiftKey /\ m.meta = e.metaKey
       /\ m.altGr = (e.altKey /\ e.location = 2)
       /\ m.capsLock = (IF q.available THEN q.CapsLock ELSE FALSE)
       /\ m.numLock = (IF q.available THEN q.NumLock ELSE FALSE)
       /\ m.scrollLock = (IF q.available THEN q.ScrollLock ELSE FALSE)
       /\ \A i \in 1..Len(emitted) : emitted[i].modifiers = m

\* C15 witness: the right-hand Alt was processed on a host that reports
\* CapsLock on, and the tracker has altGr and capsLock set.
C15_Witness ==
  /\ task.kind = "signal" /\ task.raw.type = "keydown" /\ captureModifiers
  /\ task.raw.event.altKey /\ task.raw.event.location = 2
  /\ task.raw.event.getModifierState.available
  /\ task.raw.event.getModifierState.CapsLock
  /\ objects[modifierState].altGr /\ objects[modifierState].capsLock
  /\ emitted # <<>>

\* the state of a newly constructed tracker (same options) after it has
\* processed one raw signal
AfterAlone(type, raw) ==
  LET fresh == [Cur EXCEPT !.objects = [id \in {1} |-> InitialModifierState],
                           !.modifierState = 1, !.held = NoEvent,
                           !.returned = {}, !.emitted = <<>>]
      after == handler(fresh, type, raw)
  IN [state |-> after.objects[after.modifierState], emitted |-> after.emitted]

\* C16 (as claimed): after a raw signal is processed, the tracker's state and
\* the modifiers of the emitted event are those a tracker without any history
\* has after the same signal.
C16_NoHistory ==
  [][task'.kind = "signal" =>
       LET alone == AfterAlone(task'.raw.type, task'.raw.event)
       IN /\ objects'[modifierState'] = alone.state
          /\ emitted' = alone.emitted]_vars

\* C17: a compositionstart, compositionupdate or compositionend signal is
\* normalized to a composition_event with the signal's text as
\* compositionText, compositionStart = 0 and compositionEnd = the length of
\* the text, whatever the kind of the signal.
C17_CompositionNormalized ==
  (task.kind = "signal" /\ task.raw.type \in CompositionSignals) =>
    /\ emitted # <<>>
    /\ \A i \in 1..Len(emitted) :
         /\ emitted[i].type = "composition_event"
         /\ emitted[i].compositionText = task.raw.event.data
         /\ emitted[i].compositionStart = 0
         /\ emitted[i].compositionEnd = Len(task.raw.event.data)

\* C17 witness: a compositionend signal with a text of two code units was
\* normalized.
C17_Witness ==
  /\ task.kind = "signal" /\ task.raw.type = "compositionend"
  /\ Len(task.raw.event.data) = 2
  /\ Len(emitted) = 1
  /\ emitted[1].compositionEnd = 2

\* the event the page kept, as the page reads it
HeldEvent == deref(Cur, held)

\* C18: an event the page kept reads the same after every task that does not
\* replace it: a later raw signal, resetModifierState(), getModifierState()
\* and a write to the object getModifierState() returned.
C18_EmittedEventFrozen ==
  [][(held.type # "none" /\ ~(task'.kind = "signal" /\ task'.retain))
       => HeldEvent' = HeldEvent]_vars

\* C18 witness: the page keeps an event emitted with ctrl held, and a later
\* key signal has set the tracker's ctrl to false.
C18_Witness ==
  /\ held.type = "keyboard_event"
  /\ objects[held.modifiers].ctrl
  /\ task.kind = "signal" /\ task.raw.type \in KeySignals /\ ~task.retain
  /\ captureModifiers
  /\ ~objects[modifierState].ctrl

\* C19: a message whose text is no JSON is discarded (onMessage is not
\* invoked, nothing is thrown out of handleMessage, isConnected, isConnecting
\* and reconnectAttempts keep their values), and a well-formed message is
\* delivered to onMessage in whatever state it arrives, also after a
\* malformed one.
C19_MalformedDiscarded ==
  [][task'.kind = "message" =>
       /\ task'.raw.event.data = "{oops" =>
            /\ "onMessage" \notin Range(trace')
            /\ Range(trace') \cap {"throw: SyntaxError", "throw: TypeError"} = {}
            /\ isConnected' = isConnected
            /\ isConnecting' = isConnecting
            /\ reconnectAttempts' = reconnectAttempts
       /\ task'.raw.event.data = "{\"type\":\"connection_established\"}" =>
            Count(trace', "onMessage") = 1]_vars

\* C19 witness: a connected client has just discarded a malformed message.
C19_Witness ==
  /\ task.kind = "message"
  /\ task.raw.event.data = "{oops"
  /\ isConnected
  /\ trace = <<"Failed to parse message">>

\* C20 (as claimed): setKeymap(k) on a connected client transmits a keymap
\* message carrying k.
C20_KeymapUpdateSent ==
  [][(task'.kind = "setKeymap" /\ isConnected) =>
       \E i \in 1..Len(transmitted') :
         /\ transmitted'[i].msg.type = "keymap"
         /\ transmitted'[i].msg.keymap = keymaps'[keymap']]_vars

\* C21: isConnecting and isConnected are never both true.
C21_NotConnectingAndConnected == ~(isConnecting /\ isConnected)

\* C21 witness: the socket of an attempt that had timed out has opened while
\* a later attempt was connecting: the client is connected, and not
\* connecting, with a current socket that is still connecting.
C21_Witness ==
  /\ task.kind = "open"
  /\ ws # NoSocket /\ ws # task.sock
  /\ sockets[ws].readyState = "CONNECTING"
  /\ isConnected /\ ~isConnecting

\* the last socket that opened (in a retry run, the last successful
\* connection), or NoSocket
LastOpened ==
  LET opened == {s \in 1..Len(sockets) : sockets[s].opened}
  IN IF opened = {} THEN NoSocket
     ELSE CHOOSE s \in opened : \A other \in opened : other <= s

\* the reconnection attempts made since the last successful connection: the
\* sockets the reconnect timers have created after the last one that opened
AttemptsSinceOpen ==
  Cardinality({s \in (LastOpened + 1)..Len(sockets) : sockets[s].caller = "timer"})

\* C22 (as claimed): the retry loop makes at most maxReconnectAttempts
\* reconnection attempts after the last successful connection.
C22_RetryLoopTerminates == AttemptsSinceOpen <= maxReconnectAttempts

\* C29 (as claimed): at most one reconnect timer is pending at any time; one
\* failed attempt schedules one follow-up at most.
C29_OneReconnectTimer == reconnectTimers <= 1

\* C30 (as claimed): a connection attempt that fails with a transport error
\* consumes one unit of reconnectAttempts, so that a client with cap N makes
\* N attempts before it gives up.
C30_OneUnitPerFailure ==
  [][(task'.kind = "fail" /\ sockets[task'.sock].promise = "pending")
       => reconnectAttempts' <= reconnectAttempts + 1]_vars

\* C23 (as claimed): while the bridge is started its session is alive: the
\* client is connected, connecting, or has a reconnection scheduled; after a
\* terminal disconnect the bridge is no longer started.
C23_StartedMeansAlive ==
  isStarted => (isConnected \/ isConnecting \/ reconnectTimers > 0)

\* C24 (as claimed): the bridge's keymap is an object of its own: a write of
\* the page to the keymap object it holds (and may have passed to the
\* constructor or to setKeymap) leaves the content of the bridge's keymap,
\* which is what a keymap message carries, as it was; and the content of
\* DEFAULT_KEYMAP never changes.
C24_KeymapIsPrivate ==
  [][/\ task'.kind = "writeKeymap" => keymaps'[keymap'] = keymaps[keymap]
     /\ keymaps'.DEFAULT_KEYMAP = DEFAULT_KEYMAP]_vars

\* C25 (as claimed): a client configured with maxReconnectAttempts = 0 never
\* schedules a reconnection.
C25_ZeroCapNeverRetries ==
  /\ reconnectTimers = 0
  /\ "Attempting to reconnect" \notin Range(trace)

\* the positions of trace at which send() threw
Thrown(out) == {i \in 1..Len(out) : out[i] \in SendErrors}

\* C26: a send that throws while a captured event is forwarded is isolated
\* to that event: the exception is caught by the bridge's handler, the event
\* is not transmitted, no field of the client changes (isConnected,
\* isConnecting, reconnectAttempts, the current socket, the timers), and a
\* signal captured when the client is connected with an open current socket
\* is transmitted, whatever was dropped before.
C26_SendFailureIsolated ==
  [][task'.kind = "signal" =>
       /\ \A i \in Thrown(trace') :
            i < Len(trace') /\ trace'[i + 1] = "caught"
       /\ Thrown(trace') # {} =>
            /\ transmitted' = <<>>
            /\ isConnected' = isConnected
            /\ isConnecting' = isConnecting
            /\ reconnectAttempts' = reconnectAttempts
            /\ reconnectTimers' = reconnectTimers
            /\ ws' = ws
            /\ sockets' = sockets
       /\ (isConnected /\ ws # NoSocket /\ sockets[ws].readyState = "OPEN") =>
            /\ Thrown(trace') = {}
            /\ Len(transmitted') = Len(emitted')
            /\ transmitted' # <<>>]_vars

\* C26 witness: the forwarding of a key signal has thrown in the browser's
\* send, on a client that is connected with a current socket that is still
\* connecting, and the exception was caught.
C26_Witness ==
  /\ task.kind = "signal" /\ task.raw.type = "keydown"
  /\ isConnected
  /\ "throw: InvalidStateError" \in Range(trace)
  /\ trace[Len(trace)] = "caught"

\* C27 (as claimed): while the client is connected its current socket is
\* set, and it is the socket whose open event made it connected.
C27_ConnectedSocketIsCurrent ==
  isConnected =>
    /\ ws # NoSocket
    /\ task.kind = "open" => ws = task.sock

\* C28 (as claimed): the open, error and close events of a socket that is
\* no longer the current one leave isConnected, isConnecting and
\* reconnectAttempts as they are, and schedule no reconnection while a newer
\* socket is the current one.
C28_SupersededSocketIgnored ==
  [][(task'.kind \in {"open", "fail", "close"} /\ task'.sock # ws) =>
       /\ isConnected' = isConnected
       /\ isConnecting' = isConnecting
       /\ reconnectAttempts' = reconnectAttempts
       /\ ws > task'.sock => reconnectTimers' = reconnectTimers]_vars

\* C31: every transition into the connected state resets reconnectAttempts
\* to 0, and it is an open event that makes it: after any open event the
\* client is connected with a counter of 0, so that the attempts made before
\* a successful connection do not count against the cap afterwards.
C31_ConnectedResetsAttempts ==
  [][/\ (~isConnected /\ isConnected') =>
          (task'.kind = "open" /\ reconnectAttempts' = 0)
     /\ task'.kind = "open" => (isConnected' /\ reconnectAttempts' = 0)]_vars

\* C31 witness: the socket of a reconnection attempt has opened, which has
\* taken the counter from the cap back to 0.
C31_Witness ==
  /\ task.kind = "open"
  /\ sockets[task.sock].caller = "timer"
  /\ "Connected to WebSocket server" \in Range(trace)
  /\ isConnected
  /\ reconnectAttempts = 0

\* C32 (as claimed): the bridge becomes started, and capture is started,
\* only in a state where the client is connected; a start() whose connect()
\* rejects leaves the bridge not started and capture not started.
C32_StartedOnlyWhenConnected ==
  [][/\ (~isStarted /\ isStarted') => isConnected'
     /\ (~isCapturing /\ isCapturing') => isConnected'
     /\ "start rejected" \in Range(trace') =>
          (isStarted' = isStarted /\ isCapturing' = isCapturing)]_vars

\* C33 (as claimed): when the connect() call that created the current
\* socket rejects by its handshake timeout, isConnecting and isConnected are
\* both false, so that the next connect() creates a socket.
C33_RejectionLeavesIdle ==
  [][(/\ task'.kind = "timeout"
      /\ task'.sock = ws
      /\ "Failed to connect" \in Range(trace'))
       => (~isConnecting' /\ ~isConnected' /\ CreatesSocket(Cur)')]_vars

\* C34: in the tracker's state and in the modifiers of every emitted event,
\* altGr implies alt.
C34_AltGrImpliesAlt ==
  /\ objects[modifierState].altGr => objects[modifierState].alt
  /\ \A i \in 1..Len(emitted) :
       emitted[i].modifiers.altGr => emitted[i].modifiers.alt

\* C34 witness: a composition signal that followed the right-hand Alt has
\* emitted an event with altGr and alt set, the tracker's state being the
\* same.
C34_Witness ==
  /\ task.kind = "signal" /\ task.raw.type \in CompositionSignals
  /\ Len(emitted) = 1
  /\ emitted[1].modifiers.altGr /\ emitted[1].modifiers.alt
  /\ objects[modifierState].altGr /\ objects[modifierState].alt

====
